---------------------------- MODULE Spec2Model ----------------------------
(***************************************************************************)
(* Model of scripts/analyze-token-attribution.py (hegel-cli): main() reads *)
(* a batch of phase records, aggregates it along three dimensions and      *)
(* prints a diagnostic report.                                             *)
(*                                                                         *)
(* A phase record is a TLA+ record whose DOMAIN is the set of keys of the  *)
(* Python dict; p['k'] on a missing key raises KeyError.  A list of phases *)
(* is a sequence of indices into data: Python lists hold references to the *)
(* dicts of data, and two equal dicts at different positions are different *)
(* phases.  stdout is the sequence out of printed lines; an uncaught       *)
(* exception ends the run with err set and out as printed so far.          *)
(***************************************************************************)
EXTENDS Integers, Sequences, FiniteSets

VARIABLES
    data,                  \* the array json.load(sys.stdin) returns
    pc,                    \* position of main()
    err,                   \* "none", or the uncaught exception that ended the run
    out,                   \* lines printed to stdout so far
    total_phases,
    zero_token_phases,
    nonzero_token_phases,
    by_workflow,
    by_phase_name,
    zero_by_archived,
    suspicious_phases,
    suspicious_sorted,
    phase_stats,
    workflows_all_zero,
    workflows_mixed,
    workflows_all_nonzero,
    live_phases,
    rate_total,            \* inputs and results of the zero-rate computation
    rate_zero_count,       \* (lines 85-92) taken on its own
    zero_rate,
    rate_shown,
    rpc

locals == <<total_phases, zero_token_phases, nonzero_token_phases, by_workflow,
            by_phase_name, zero_by_archived, suspicious_phases, suspicious_sorted,
            phase_stats, workflows_all_zero, workflows_mixed,
            workflows_all_nonzero, live_phases>>
ratevars == <<rate_total, rate_zero_count, zero_rate, rate_shown, rpc>>
vars == <<data, pc, err, out, locals, ratevars>>

----------------------------------------------------------------------------
(* Bounds of the model and constants of the program *)

MaxPad == 1
MaxPadTop == 11
MaxGroup == 40
BigGroup == 2001
SuspiciousSeconds == 300
TopShown == 10
ManySuspicious == 10

----------------------------------------------------------------------------
(* Python primitives *)

Has(p, k) == k \in DOMAIN p

Get(p, k, default) == IF Has(p, k) THEN p[k] ELSE default

IdxSeq(d) == [i \in 1..Len(d) |-> i]

Range(s) == {s[i] : i \in 1..Len(s)}

Min(a, b) == IF a < b THEN a ELSE b

(* format(num/den, ".1f") in tenths: the nearest tenth, an exact half going *)
(* to the even tenth.  This is Python's result for every num/den the model  *)
(* forms (shares of up to 79 phases and of 2001 to 2003, the durations over *)
(* 60); where den is a multiple of 80 the float's own error decides a half. *)
Round1(num, den) ==
    LET q == (10 * num) \div den
        r == (10 * num) % den
    IN  IF 2 * r > den \/ (2 * r = den /\ q % 2 = 1) THEN q + 1 ELSE q

(* one printed line: its kind, the strings and the numbers it shows *)
Line(kind, s, n) == [kind |-> kind, s |-> s, n |-> n]

Text(kind) == Line(kind, <<>>, <<>>)

Blank == Text("blank")

----------------------------------------------------------------------------
(* The aggregation, lines 29-53 *)

IsZero(d, i) == d[i].tokens_attributed = 0

ZeroTokenPhases(d) == SelectSeq(IdxSeq(d), LAMBDA i : d[i].tokens_attributed = 0)

(* variant: >= 0 in place of > 0 *)
NonzeroInclusive(d) == SelectSeq(IdxSeq(d), LAMBDA i : d[i].tokens_attributed >= 0)

NonzeroTokenPhases(d) == SelectSeq(IdxSeq(d), LAMBDA i : d[i].tokens_attributed > 0)

(* defaultdict(list) filled by the loop of line 38: keys in first-seen order, *)
(* each key's phases in batch order                                           *)
RECURSIVE KeysInOrder(_, _, _)
KeysInOrder(d, k, i) ==
    IF i = 0 THEN <<>>
    ELSE LET before == KeysInOrder(d, k, i - 1)
         IN  IF d[i][k] \in Range(before) THEN before ELSE Append(before, d[i][k])

GroupBy(d, k) ==
    LET keys == KeysInOrder(d, k, Len(d))
    IN  [keys  |-> keys,
         items |-> [x \in Range(keys) |->
                      SelectSeq(IdxSeq(d), LAMBDA i : d[i][k] = x)]]

ZeroByArchived(d) ==
    [archived |-> SelectSeq(IdxSeq(d), LAMBDA i : IsZero(d, i) /\ d[i].is_archived),
     live     |-> SelectSeq(IdxSeq(d), LAMBDA i : IsZero(d, i) /\ ~d[i].is_archived)]

(* variant: >= in place of >, a phase of exactly 300 seconds included *)
SuspiciousInclusive(d, zero) ==
    SelectSeq(zero, LAMBDA i : d[i].duration_seconds >= SuspiciousSeconds)

SuspiciousPhases(d, zero) ==
    SelectSeq(zero, LAMBDA i : d[i].duration_seconds > SuspiciousSeconds)

(* the KeyErrors of lines 30-53, all raised before the first print *)
AggregateRaises(d) ==
    \/ \E i \in 1..Len(d) : ~Has(d[i], "tokens_attributed")
    \/ \E i \in 1..Len(d) :
          \/ ~Has(d[i], "workflow_id")
          \/ ~Has(d[i], "phase_name")
          \/ IsZero(d, i) /\ ~Has(d[i], "is_archived")
    \/ \E i \in 1..Len(d) : IsZero(d, i) /\ ~Has(d[i], "duration_seconds")

----------------------------------------------------------------------------
(* The suspicious phases, lines 71-78 *)

(* sorted(suspicious_phases, key=duration_seconds, reverse=True): a stable *)
(* sort, descending; phases of equal duration keep their order in s.       *)
(* variant: the list printed as it is, the sort left out *)
UnsortedByDuration(d, s) == s

SortedByDurationDesc(d, s) ==
    LET n == Len(s)
        Key(i) == d[s[i]].duration_seconds
        Before(i, j) == Key(i) > Key(j) \/ (Key(i) = Key(j) /\ i < j)
        Rank(j) == Cardinality({i \in 1..n : Before(i, j)}) + 1
    IN  [r \in 1..n |-> s[CHOOSE j \in 1..n : Rank(j) = r]]

(* suspicious_sorted[:10] *)
Top(s) == SubSeq(s, 1, Min(TopShown, Len(s)))

SuspiciousEntry(d, i) ==
    Line("suspicious_entry", <<d[i].workflow_id, d[i].phase_name>>,
         <<Round1(d[i].duration_seconds, 60)>>)

SuspiciousLines(d, suspicious, sorted) ==
    <<Line("suspicious_count", <<>>, <<Len(suspicious)>>)>>
    \o (IF Len(suspicious) > 0
        THEN <<Blank, Text("top10_heading")>>
             \o [j \in 1..Len(Top(sorted)) |-> SuspiciousEntry(d, Top(sorted)[j])]
        ELSE <<>>)
    \o <<Blank>>

----------------------------------------------------------------------------
(* Zero-token rate by phase name, lines 82-93 *)

(* zero_count / total * 100 if total > 0 else 0, kept as the exact fraction *)
(* <<numerator, denominator>>: float division and multiplication by 100 are *)
(* monotone and keep the fractions of two counts apart                      *)
(* variant: the share of the non-zero phases *)
NonzeroRate(zero_count, total) ==
    IF total > 0 THEN <<100 * (total - zero_count), total>> ELSE <<0, 1>>

ZeroRate(zero_count, total) ==
    IF total > 0 THEN <<100 * zero_count, total>> ELSE <<0, 1>>

RateGt(a, b) == a[1] * b[2] > b[1] * a[2]

(* {zero_rate:5.1f}, in tenths of a percent *)
ShownRate(rate) == Round1(rate[1], rate[2])

(* phase_stats as appended by the loop of line 84, in by_phase_name's order: *)
(* (phase_name, total, zero_count, zero_rate)                                *)
PhaseStats(d, byname) ==
    [j \in 1..Len(byname.keys) |->
        LET phases == byname.items[byname.keys[j]]
            total == Len(phases)
            zero_count == Len(SelectSeq(phases, LAMBDA i : d[i].tokens_attributed = 0))
        IN  <<byname.keys[j], total, zero_count, ZeroRate(zero_count, total)>>]

(* variant: an ascending sort reversed, which reverses names of equal rate *)
UnstableByZeroRateDesc(stats) ==
    LET n == Len(stats)
        Before(i, j) == RateGt(stats[i][4], stats[j][4])
                        \/ (~RateGt(stats[j][4], stats[i][4]) /\ i > j)
        Rank(j) == Cardinality({i \in 1..n : Before(i, j)}) + 1
    IN  [r \in 1..n |-> stats[CHOOSE j \in 1..n : Rank(j) = r]]

(* phase_stats.sort(key=lambda x: x[3], reverse=True): stable, descending *)
SortedByZeroRateDesc(stats) ==
    LET n == Len(stats)
        Before(i, j) == RateGt(stats[i][4], stats[j][4])
                        \/ (~RateGt(stats[j][4], stats[i][4]) /\ i < j)
        Rank(j) == Cardinality({i \in 1..n : Before(i, j)}) + 1
    IN  [r \in 1..n |-> stats[CHOOSE j \in 1..n : Rank(j) = r]]

PhaseRateLine(x) == Line("phase_rate", <<x[1]>>, <<x[3], x[2], ShownRate(x[4])>>)

PhaseStatsLines(stats) ==
    <<Text("phase_rate_heading")>>
    \o [j \in 1..Len(stats) |-> PhaseRateLine(stats[j])]
    \o <<Blank>>

----------------------------------------------------------------------------
(* Workflow-level analysis, lines 96-113 *)

WorkflowZeroCount(d, byw, wid) ==
    Len(SelectSeq(byw.items[wid], LAMBDA i : d[i].tokens_attributed = 0))

WorkflowsAllZero(d, byw) ==
    SelectSeq(byw.keys,
              LAMBDA wid : WorkflowZeroCount(d, byw, wid) = Len(byw.items[wid]))

(* variant: the elif without its zero_count == 0 test *)
AllNonzeroUnguarded(d, byw) ==
    SelectSeq(byw.keys, LAMBDA wid : WorkflowZeroCount(d, byw, wid) < Len(byw.items[wid]))

WorkflowsAllNonzero(d, byw) ==
    SelectSeq(byw.keys,
              LAMBDA wid : /\ WorkflowZeroCount(d, byw, wid) # Len(byw.items[wid])
                           /\ WorkflowZeroCount(d, byw, wid) = 0)

WorkflowsMixed(d, byw) ==
    LET mixed == SelectSeq(byw.keys,
                   LAMBDA wid : /\ WorkflowZeroCount(d, byw, wid) # Len(byw.items[wid])
                                /\ WorkflowZeroCount(d, byw, wid) # 0)
    IN  [j \in 1..Len(mixed) |->
            <<mixed[j], WorkflowZeroCount(d, byw, mixed[j]), Len(byw.items[mixed[j]])>>]

WorkflowLines(allzero, allnonzero, mixed) ==
    <<Text("workflow_heading"),
      Line("workflows_all_zero", <<>>, <<Len(allzero)>>),
      Line("workflows_all_nonzero", <<>>, <<Len(allnonzero)>>),
      Line("workflows_mixed", <<>>, <<Len(mixed)>>),
      Blank>>

----------------------------------------------------------------------------
(* Live phase transcript matching, lines 115-125 *)

LiveRaises(d) == \E i \in 1..Len(d) : ~Has(d[i], "is_archived")

LivePhases(d) == SelectSeq(IdxSeq(d), LAMBDA i : ~d[i].is_archived)

LiveEntry(d, i) ==
    Line("live_entry", <<d[i].phase_name>>,
         <<Get(d[i], "transcript_events_examined", 0),
           Get(d[i], "transcript_events_matched", 0),
           d[i].tokens_attributed>>)

(* variant: a line for every live phase, the field test of line 120 left out *)
LiveShownAll(d, live) == live

LiveShown(d, live) ==
    SelectSeq(live, LAMBDA i : Has(d[i], "transcript_events_examined"))

LiveLines(d, live) ==
    IF Len(live) > 0
    THEN <<Text("live_heading")>>
         \o [j \in 1..Len(LiveShown(d, live)) |-> LiveEntry(d, LiveShown(d, live)[j])]
         \o <<Blank>>
    ELSE <<>>

----------------------------------------------------------------------------
(* Recommendations, lines 127-147 *)

(* variant: the test made on the ten displayed phases *)
RecommendsSystemicAtShown(suspicious) == Len(Top(suspicious)) > ManySuspicious

RecommendsSystemic(suspicious) == Len(suspicious) > ManySuspicious

RecommendationLines(suspicious, mixed, zerolive) ==
    <<Text("rule"), Text("recommendations"), Text("rule")>>
    \o (IF RecommendsSystemic(suspicious)
        THEN <<Text("rec_systemic"), Text("rec_systemic_bug"), Text("rec_next_steps"),
               Text("rec_step_archive"), Text("rec_step_transcript"),
               Text("rec_step_verbose"), Blank>>
        ELSE <<>>)
    \o (IF Len(mixed) > 0
        THEN <<Text("rec_mixed"), Text("rec_mixed_focus"), Blank>>
        ELSE <<>>)
    \o (IF Len(zerolive) > 0 THEN <<Text("rec_live")>> ELSE <<>>)

----------------------------------------------------------------------------
(* The steps of main() *)

Raise(e) ==
    /\ err' = e
    /\ pc' = "done"

(* lines 26-53: the counts, the grouping views and the suspicious phases *)
Aggregate ==
    /\ pc = "aggregate"
    /\ IF AggregateRaises(data)
       THEN /\ Raise("KeyError")
            /\ UNCHANGED <<out, locals>>
       ELSE /\ total_phases' = Len(data)
            /\ zero_token_phases' = ZeroTokenPhases(data)
            /\ nonzero_token_phases' = NonzeroTokenPhases(data)
            /\ by_workflow' = GroupBy(data, "workflow_id")
            /\ by_phase_name' = GroupBy(data, "phase_name")
            /\ zero_by_archived' = ZeroByArchived(data)
            /\ suspicious_phases' = SuspiciousPhases(data, ZeroTokenPhases(data))
            /\ pc' = "totals"
            /\ UNCHANGED <<err, out, suspicious_sorted, phase_stats,
                           workflows_all_zero, workflows_mixed,
                           workflows_all_nonzero, live_phases>>
    /\ UNCHANGED <<data, ratevars>>

Banner == <<Text("rule"), Text("title"), Text("rule"), Blank>>

TotalLine(total) == Line("total", <<>>, <<total>>)

(* a count and its share of the total, {n/total_phases*100:.1f} in tenths *)
ShareLine(kind, n, total) == Line(kind, <<>>, <<n, Round1(100 * n, total)>>)

(* lines 56-69: the banner, the totals and the archived/live breakdown; the *)
(* first percentage divides by total_phases                                 *)
PrintTotals ==
    /\ pc = "totals"
    /\ IF total_phases = 0
       THEN /\ Raise("ZeroDivisionError")
            /\ out' = out \o Banner \o <<TotalLine(total_phases)>>
       ELSE /\ out' = out \o Banner
                      \o <<TotalLine(total_phases),
                           ShareLine("zero_token", Len(zero_token_phases), total_phases),
                           ShareLine("nonzero_token", Len(nonzero_token_phases), total_phases),
                           Blank,
                           Text("breakdown_heading"),
                           Line("zero_archived", <<>>, <<Len(zero_by_archived.archived)>>),
                           Line("zero_live", <<>>, <<Len(zero_by_archived.live)>>),
                           Blank>>
            /\ pc' = "suspicious"
            /\ UNCHANGED err
    /\ UNCHANGED <<data, locals, ratevars>>

(* lines 71-79 *)
PrintSuspicious ==
    /\ pc = "suspicious"
    /\ suspicious_sorted' = IF Len(suspicious_phases) > 0
                            THEN SortedByDurationDesc(data, suspicious_phases)
                            ELSE suspicious_sorted
    /\ out' = out \o SuspiciousLines(data, suspicious_phases, suspicious_sorted')
    /\ pc' = "phase_stats"
    /\ UNCHANGED <<data, err, ratevars, total_phases, zero_token_phases,
                   nonzero_token_phases, by_workflow, by_phase_name,
                   zero_by_archived, suspicious_phases, phase_stats,
                   workflows_all_zero, workflows_mixed, workflows_all_nonzero,
                   live_phases>>

(* lines 81-93 *)
PrintPhaseStats ==
    /\ pc = "phase_stats"
    /\ phase_stats' = SortedByZeroRateDesc(PhaseStats(data, by_phase_name))
    /\ out' = out \o PhaseStatsLines(phase_stats')
    /\ pc' = "workflows"
    /\ UNCHANGED <<data, err, ratevars, total_phases, zero_token_phases,
                   nonzero_token_phases, by_workflow, by_phase_name,
                   zero_by_archived, suspicious_phases, suspicious_sorted,
                   workflows_all_zero, workflows_mixed, workflows_all_nonzero,
                   live_phases>>

(* lines 95-113 *)
PrintWorkflows ==
    /\ pc = "workflows"
    /\ workflows_all_zero' = WorkflowsAllZero(data, by_workflow)
    /\ workflows_mixed' = WorkflowsMixed(data, by_workflow)
    /\ workflows_all_nonzero' = WorkflowsAllNonzero(data, by_workflow)
    /\ out' = out \o WorkflowLines(workflows_all_zero', workflows_all_nonzero',
                                   workflows_mixed')
    /\ pc' = "live"
    /\ UNCHANGED <<data, err, ratevars, total_phases, zero_token_phases,
                   nonzero_token_phases, by_workflow, by_phase_name,
                   zero_by_archived, suspicious_phases, suspicious_sorted,
                   phase_stats, live_phases>>

(* lines 115-125: is_archived is read here for every phase *)
PrintLive ==
    /\ pc = "live"
    /\ IF LiveRaises(data)
       THEN /\ Raise("KeyError")
            /\ UNCHANGED <<out, live_phases>>
       ELSE /\ live_phases' = LivePhases(data)
            /\ out' = out \o LiveLines(data, live_phases')
            /\ pc' = "recommendations"
            /\ UNCHANGED err
    /\ UNCHANGED <<data, ratevars, total_phases, zero_token_phases,
                   nonzero_token_phases, by_workflow, by_phase_name,
                   zero_by_archived, suspicious_phases, suspicious_sorted,
                   phase_stats, workflows_all_zero, workflows_mixed,
                   workflows_all_nonzero>>

(* lines 127-147 *)
PrintRecommendations ==
    /\ pc = "recommendations"
    /\ out' = out \o RecommendationLines(suspicious_phases, workflows_mixed,
                                         zero_by_archived.live)
    /\ pc' = "done"
    /\ UNCHANGED <<data, err, locals, ratevars>>

Next ==
    \/ Aggregate
    \/ PrintTotals
    \/ PrintSuspicious
    \/ PrintPhaseStats
    \/ PrintWorkflows
    \/ PrintLive
    \/ PrintRecommendations

----------------------------------------------------------------------------
(* The zero-rate computation of one phase-name group, lines 85-92 *)

ComputeRate ==
    /\ rpc = "count"
    /\ zero_rate' = ZeroRate(rate_zero_count, rate_total)
    /\ rpc' = "rate"
    /\ UNCHANGED <<data, pc, err, out, locals, rate_total, rate_zero_count, rate_shown>>

ShowRate ==
    /\ rpc = "rate"
    /\ rate_shown' = ShownRate(zero_rate)
    /\ rpc' = "shown"
    /\ UNCHANGED <<data, pc, err, out, locals, rate_total, rate_zero_count, zero_rate>>

NextRate ==
    \/ ComputeRate
    \/ ShowRate

----------------------------------------------------------------------------
(* Inputs *)

WorkflowIds == {"w1", "w2"}

PhaseNames == {"plan", "code"}

Tokens == {0, 5}

Archived(W, P, T, D) ==
    [workflow_id : W, phase_name : P, tokens_attributed : T,
     duration_seconds : D, is_archived : {TRUE}]

Live(W, P, T, D) ==
    [workflow_id : W, phase_name : P, tokens_attributed : T,
     duration_seconds : D, is_archived : {FALSE}]

LiveMatched(W, P, T, D) ==
    [workflow_id : W, phase_name : P, tokens_attributed : T,
     duration_seconds : D, is_archived : {FALSE},
     transcript_events_examined : {3}, transcript_events_matched : {2}]

(* a live phase whose record has the events examined and not the matched *)
LiveExamined(W, P, T, D) ==
    [workflow_id : W, phase_name : P, tokens_attributed : T,
     duration_seconds : D, is_archived : {FALSE},
     transcript_events_examined : {3}]

(* records with one required key left out *)
Malformed(W, P, T, D, A) ==
    [phase_name : P, tokens_attributed : T, duration_seconds : D, is_archived : A]
    \cup [workflow_id : W, tokens_attributed : T, duration_seconds : D, is_archived : A]
    \cup [workflow_id : W, phase_name : P, duration_seconds : D, is_archived : A]
    \cup [workflow_id : W, phase_name : P, tokens_attributed : T, is_archived : A]
    \cup [workflow_id : W, phase_name : P, tokens_attributed : T, duration_seconds : D]

Opt(S) == {<<>>} \cup {<<r>> : r \in S}

(* a batch: at most one free record, k copies of one pad record, at most one *)
(* free record                                                               *)
Batches(free, pads, maxPad) ==
    {pre \o [j \in 1..k |-> p] \o post :
        pre \in Opt(free), post \in Opt(free), p \in pads, k \in 0..maxPad}

FreeRecords ==
    Archived(WorkflowIds, PhaseNames, Tokens, {10, 400})
    \cup Live(WorkflowIds, PhaseNames, Tokens, {10, 400})
    \cup LiveMatched({"w1"}, PhaseNames, Tokens, {10, 400})
    \cup LiveExamined({"w2"}, PhaseNames, Tokens, {10, 400})

PadRecords ==
    Archived({"w1"}, {"plan"}, {0}, {400}) \cup Live({"w2"}, {"code"}, {0}, {301})

FreeRecordsTop ==
    Archived(WorkflowIds, {"plan"}, Tokens, {300, 301, 400})
    \cup Live(WorkflowIds, {"plan"}, Tokens, {300, 301, 400})

PadRecordsTop == Archived({"w1"}, {"plan"}, {0}, {301, 400})

FreeRecordsMalformed ==
    Archived({"w1"}, {"plan"}, Tokens, {400})
    \cup Live({"w1"}, {"plan"}, Tokens, {400})
    \cup Malformed({"w1"}, {"plan"}, Tokens, {400}, BOOLEAN)

InitLocals ==
    /\ total_phases = 0
    /\ zero_token_phases = <<>>
    /\ nonzero_token_phases = <<>>
    /\ by_workflow = [keys |-> <<>>, items |-> <<>>]
    /\ by_phase_name = [keys |-> <<>>, items |-> <<>>]
    /\ zero_by_archived = [archived |-> <<>>, live |-> <<>>]
    /\ suspicious_phases = <<>>
    /\ suspicious_sorted = <<>>
    /\ phase_stats = <<>>
    /\ workflows_all_zero = <<>>
    /\ workflows_mixed = <<>>
    /\ workflows_all_nonzero = <<>>
    /\ live_phases = <<>>

RateIdle ==
    /\ rate_total = 0
    /\ rate_zero_count = 0
    /\ zero_rate = <<0, 1>>
    /\ rate_shown = 0
    /\ rpc = "idle"

InitRun(batches) ==
    /\ data \in batches
    /\ pc = "aggregate"
    /\ err = "none"
    /\ out = <<>>
    /\ InitLocals
    /\ RateIdle

Init == InitRun(Batches(FreeRecords, PadRecords, MaxPad))

InitTop == InitRun(Batches(FreeRecordsTop, PadRecordsTop, MaxPadTop))

InitMalformed == InitRun(Batches(FreeRecordsMalformed, PadRecords, MaxPad))

InitRate ==
    /\ rate_total \in (1..MaxGroup) \cup {BigGroup}
    /\ rate_zero_count \in 0..rate_total
    /\ zero_rate = <<0, 1>>
    /\ rate_shown = 0
    /\ rpc = "count"
    /\ data = <<>>
    /\ pc = "idle"
    /\ err = "none"
    /\ out = <<>>
    /\ InitLocals

Spec == Init /\ [][Next]_vars

SpecTop == InitTop /\ [][Next]_vars

SpecMalformed == InitMalformed /\ [][Next]_vars

SpecRate == InitRate /\ [][NextRate]_vars

----------------------------------------------------------------------------
(* The report of a whole run on batch d, for comparing runs *)

ReportCounts(d) ==
    LET zero == ZeroTokenPhases(d)
        byw == GroupBy(d, "workflow_id")
        stats == PhaseStats(d, GroupBy(d, "phase_name"))
    IN  [total       |-> Len(d),
         zero        |-> Len(zero),
         nonzero     |-> Len(NonzeroTokenPhases(d)),
         archived    |-> Len(ZeroByArchived(d).archived),
         live        |-> Len(ZeroByArchived(d).live),
         suspicious  |-> Len(SuspiciousPhases(d, zero)),
         by_name     |-> {<<stats[j][1], stats[j][2], stats[j][3]>> : j \in 1..Len(stats)},
         all_zero    |-> Len(WorkflowsAllZero(d, byw)),
         all_nonzero |-> Len(WorkflowsAllNonzero(d, byw)),
         mixed       |-> Len(WorkflowsMixed(d, byw))]

(* the phases of d shown under "Top 10 suspicious phases by duration" *)
ReportShown(d) ==
    Top(SortedByDurationDesc(d, SuspiciousPhases(d, ZeroTokenPhases(d))))

ReportShownLines(d) ==
    [j \in 1..Len(ReportShown(d)) |-> SuspiciousEntry(d, ReportShown(d)[j])]

ReportPhaseStats(d) == SortedByZeroRateDesc(PhaseStats(d, GroupBy(d, "phase_name")))

----------------------------------------------------------------------------
(* Vocabulary of the properties, stated on data and on what was printed *)

Finished == pc = "done" /\ err = "none"

N == Len(data)

Required ==
    {"workflow_id", "phase_name", "tokens_attributed", "duration_seconds", "is_archived"}

MalformedBatch == \E i \in 1..N : ~(Required \subseteq DOMAIN data[i])

LinesOf(kind) == SelectSeq(out, LAMBDA l : l.kind = kind)

Printed(kind) == Len(LinesOf(kind)) > 0

NoRepeat(s) == Cardinality(Range(s)) = Len(s)

ZeroSet == {i \in 1..N : data[i].tokens_attributed = 0}

SuspiciousSet == {i \in ZeroSet : data[i].duration_seconds > 300}

WorkflowIdsOf == {data[i].workflow_id : i \in 1..N}

PhasesOf(wid) == {i \in 1..N : data[i].workflow_id = wid}

NamesOf == {data[i].phase_name : i \in 1..N}

Named(nm) == {i \in 1..N : data[i].phase_name = nm}

FirstSeen(nm) == CHOOSE i \in Named(nm) : \A j \in Named(nm) : i <= j

Orderings(n) == {f \in [1..n -> 1..n] : \A i, j \in 1..n : f[i] = f[j] => i = j}

Reordered == {[i \in 1..N |-> data[f[i]]] : f \in Orderings(N)}

RunCounts ==
    [total       |-> total_phases,
     zero        |-> Len(zero_token_phases),
     nonzero     |-> Len(nonzero_token_phases),
     archived    |-> Len(zero_by_archived.archived),
     live        |-> Len(zero_by_archived.live),
     suspicious  |-> Len(suspicious_phases),
     by_name     |-> {<<phase_stats[j][1], phase_stats[j][2], phase_stats[j][3]>> :
                        j \in 1..Len(phase_stats)},
     all_zero    |-> Len(workflows_all_zero),
     all_nonzero |-> Len(workflows_all_nonzero),
     mixed       |-> Len(workflows_mixed)]

----------------------------------------------------------------------------
(* C1: a batch with a record that misses a required field ends in the      *)
(* MalformedRecord error (KeyError here) with nothing printed, whichever    *)
(* field is missing and whatever the record's tokens_attributed.            *)
C1_MalformedFailsUnprinted ==
    (pc = "done" /\ MalformedBatch) => (err = "KeyError" /\ out = <<>>)

(* C2: an empty batch ends in the EmptyBatch error with no report body and  *)
(* without a division by the total count.                                   *)
C2_EmptyBatchFailsUnprinted ==
    (pc = "done" /\ N = 0) => (err = "EmptyBatch" /\ out = <<>>)

----------------------------------------------------------------------------
(* C4: for a non-empty batch of records with tokens_attributed >= 0, the    *)
(* zero-token list and the non-zero-token list share no phase and together  *)
(* hold every phase of the batch exactly once.                              *)
Aggregated == pc \in {"totals", "suspicious", "phase_stats", "workflows", "live",
                      "recommendations"} \/ Finished

C4_ZeroNonzeroPartition ==
    (Aggregated /\ N > 0 /\ \A i \in 1..N : data[i].tokens_attributed >= 0) =>
        /\ Range(zero_token_phases) \cap Range(nonzero_token_phases) = {}
        /\ Range(zero_token_phases) \cup Range(nonzero_token_phases) = 1..N
        /\ NoRepeat(zero_token_phases)
        /\ NoRepeat(nonzero_token_phases)
        /\ Len(zero_token_phases) + Len(nonzero_token_phases) = N

C4_Witness ==
    /\ Finished
    /\ N = 3
    /\ Len(zero_token_phases) = 2
    /\ Len(nonzero_token_phases) = 1

----------------------------------------------------------------------------
(* C6: every distinct workflow_id is in exactly one of all_zero (all its    *)
(* phases have zero tokens), all_nonzero (none has) and mixed (otherwise,   *)
(* with its (zero_count, total_phases), 0 < zero_count < total_phases); the *)
(* three classes are pairwise disjoint and their sizes sum to the number of *)
(* distinct workflow_ids.                                                   *)
Classified == pc \in {"live", "recommendations"} \/ Finished

MixedIds == {m[1] : m \in Range(workflows_mixed)}

C6_WorkflowClassesPartition ==
    Classified =>
        /\ Range(workflows_all_zero) \cap Range(workflows_all_nonzero) = {}
        /\ Range(workflows_all_zero) \cap MixedIds = {}
        /\ Range(workflows_all_nonzero) \cap MixedIds = {}
        /\ Range(workflows_all_zero) \cup Range(workflows_all_nonzero) \cup MixedIds
              = WorkflowIdsOf
        /\ Len(workflows_all_zero) + Len(workflows_all_nonzero) + Len(workflows_mixed)
              = Cardinality(WorkflowIdsOf)
        /\ \A wid \in Range(workflows_all_zero) : PhasesOf(wid) \subseteq ZeroSet
        /\ \A wid \in Range(workflows_all_nonzero) : PhasesOf(wid) \cap ZeroSet = {}
        /\ \A m \in Range(workflows_mixed) :
              /\ m[2] = Cardinality(PhasesOf(m[1]) \cap ZeroSet)
              /\ m[3] = Cardinality(PhasesOf(m[1]))
              /\ 0 < m[2]
              /\ m[2] < m[3]

C6_Witness ==
    /\ Finished
    /\ workflows_mixed = <<<<"w1", 1, 2>>>>
    /\ workflows_all_zero = <<"w2">>

----------------------------------------------------------------------------
(* C9: the phase-name zero-rate list has one entry per distinct phase_name, *)
(* in descending order of zero rate; names of equal zero rate are in the    *)
(* order in which they were first seen in the batch.  The lines printed are *)
(* the entries of the list, in its order.                                   *)
Rated == pc \in {"workflows", "live", "recommendations"} \/ Finished

ZeroNamed(nm) == Cardinality(Named(nm) \cap ZeroSet)

(* the zero rate of name a is higher than, or equal to, that of name b *)
HigherRate(a, b) ==
    ZeroNamed(a) * Cardinality(Named(b)) > ZeroNamed(b) * Cardinality(Named(a))

EqualRate(a, b) ==
    ZeroNamed(a) * Cardinality(Named(b)) = ZeroNamed(b) * Cardinality(Named(a))

C9_PhaseRateListOrdered ==
    Rated =>
        /\ Len(phase_stats) = Cardinality(NamesOf)
        /\ {phase_stats[j][1] : j \in 1..Len(phase_stats)} = NamesOf
        /\ \A j \in 1..Len(phase_stats) :
              /\ phase_stats[j][2] = Cardinality(Named(phase_stats[j][1]))
              /\ phase_stats[j][3] = ZeroNamed(phase_stats[j][1])
        /\ \A j, k \in 1..Len(phase_stats) :
              j < k =>
                 \/ HigherRate(phase_stats[j][1], phase_stats[k][1])
                 \/ /\ EqualRate(phase_stats[j][1], phase_stats[k][1])
                    /\ FirstSeen(phase_stats[j][1]) < FirstSeen(phase_stats[k][1])
        /\ Len(LinesOf("phase_rate")) = Len(phase_stats)
        /\ \A j \in 1..Len(phase_stats) :
              /\ LinesOf("phase_rate")[j].s = <<phase_stats[j][1]>>
              /\ LinesOf("phase_rate")[j].n[1] = phase_stats[j][3]
              /\ LinesOf("phase_rate")[j].n[2] = phase_stats[j][2]

(* two names of equal rate, the one first seen later in the alphabet first *)
C9_Witness ==
    /\ Finished
    /\ Len(phase_stats) = 2
    /\ EqualRate(phase_stats[1][1], phase_stats[2][1])
    /\ phase_stats[1][1] = "plan"
    /\ N = 3

----------------------------------------------------------------------------
(* C8 as stated: the live-phase section (heading and lines) is printed      *)
(* exactly when some live phase carries the transcript-matching fields, and *)
(* then holds one line per live phase.                                      *)
LiveSet == {i \in 1..N : ~data[i].is_archived}

MatchedSet == {i \in LiveSet : "transcript_events_examined" \in DOMAIN data[i]}

C8_SectionIffMatchedFields ==
    Finished =>
        /\ Printed("live_heading") <=> MatchedSet # {}
        /\ Printed("live_heading") => Len(LinesOf("live_entry")) = Cardinality(LiveSet)

(* C8 amended: the heading is printed exactly when the batch has a live     *)
(* phase, with or without transcript-matching fields; under it there is one *)
(* line per live phase that carries transcript_events_examined, in batch    *)
(* order, showing its phase_name, events examined, events matched (0 if the *)
(* record has none) and tokens; a live phase without the field gets no line *)
C8_SectionIffLivePhase ==
    Finished =>
        /\ Printed("live_heading") <=> LiveSet # {}
        /\ Len(LinesOf("live_heading")) <= 1
        /\ Len(LinesOf("live_entry")) = Cardinality(MatchedSet)
        /\ \E f \in [1..Len(LinesOf("live_entry")) -> MatchedSet] :
              /\ \A j, k \in DOMAIN f : j < k => f[j] < f[k]
              /\ \A j \in DOMAIN f :
                    /\ LinesOf("live_entry")[j].s = <<data[f[j]].phase_name>>
                    /\ LinesOf("live_entry")[j].n =
                          <<data[f[j]].transcript_events_examined,
                            IF "transcript_events_matched" \in DOMAIN data[f[j]]
                            THEN data[f[j]].transcript_events_matched ELSE 0,
                            data[f[j]].tokens_attributed>>

(* a heading with no line under it, beside a batch with both kinds of live phase *)
C8_Witness ==
    /\ Finished
    /\ Printed("live_heading")
    /\ MatchedSet = {}
    /\ Cardinality(LiveSet) = 2

----------------------------------------------------------------------------
(* C3 as stated: the run on any permutation of the batch gives the same     *)
(* aggregate counts, the same displayed suspicious-phase list and the same  *)
(* phase-name zero-rate list, in the same order.                            *)
ShownLines == LinesOf("suspicious_entry")

C3_PermutationSameReport ==
    Finished =>
        \A q \in Reordered :
            /\ ReportCounts(q) = RunCounts
            /\ ReportShownLines(q) = ShownLines
            /\ ReportPhaseStats(q) = phase_stats

(* C3 amended: the run on any permutation of the batch gives the same       *)
(* aggregate counts, and sorted lists that agree position by position in    *)
(* their sort keys (the durations of the displayed suspicious phases, the   *)
(* zero rates of the phase-name list) and for the phase-name list in their  *)
(* set of entries; entries of equal key follow the order of the permuted    *)
(* batch, so the lists are the same whenever no two suspicious phases have  *)
(* the same duration and no two phase names the same zero rate.             *)
TiedDurations ==
    \E i, j \in SuspiciousSet : i # j /\ data[i].duration_seconds = data[j].duration_seconds

TiedRates == \E a, b \in NamesOf : a # b /\ EqualRate(a, b)

C3_PermutationSameCountsAndKeys ==
    Finished =>
        \A q \in Reordered :
            /\ ReportCounts(q) = RunCounts
            /\ Len(ReportShown(q)) = Len(ShownLines)
            /\ \A j \in 1..Len(ShownLines) :
                  q[ReportShown(q)[j]].duration_seconds
                     = data[suspicious_sorted[j]].duration_seconds
            /\ Len(ReportPhaseStats(q)) = Len(phase_stats)
            /\ \A j \in 1..Len(phase_stats) :
                  ReportPhaseStats(q)[j][4][1] * phase_stats[j][4][2]
                     = phase_stats[j][4][1] * ReportPhaseStats(q)[j][4][2]
            /\ Range(ReportPhaseStats(q)) = Range(phase_stats)
            /\ ~TiedDurations => ReportShownLines(q) = ShownLines
            /\ ~TiedRates => ReportPhaseStats(q) = phase_stats

(* a batch with two suspicious phases of different duration and two with    *)
(* the same, whose permutations print the tied ones in another order        *)
C3_Witness ==
    /\ Finished
    /\ TiedDurations
    /\ \E i, j \in SuspiciousSet : data[i].duration_seconds # data[j].duration_seconds
    /\ \E q \in Reordered : ReportShownLines(q) # ShownLines

----------------------------------------------------------------------------
(* C5: the suspicious list is exactly the zero-token phases of more than    *)
(* 300 seconds; the report prints its full length and then min(10, length)  *)
(* entries, the head of the list sorted by descending duration with phases  *)
(* of equal duration in batch order.                                        *)
SuspiciousPrinted == pc \in {"phase_stats", "workflows", "live", "recommendations"}
                     \/ Finished

C5_SuspiciousListAndTop10 ==
    SuspiciousPrinted =>
        /\ Range(suspicious_phases) = SuspiciousSet
        /\ NoRepeat(suspicious_phases)
        /\ \A i \in 1..N :
              (data[i].duration_seconds <= 300 \/ data[i].tokens_attributed # 0)
                 => i \notin Range(suspicious_phases)
        /\ LinesOf("suspicious_count")
              = <<Line("suspicious_count", <<>>, <<Cardinality(SuspiciousSet)>>)>>
        /\ Len(ShownLines) = Min(10, Cardinality(SuspiciousSet))
        /\ SuspiciousSet # {} =>
              /\ Range(suspicious_sorted) = SuspiciousSet
              /\ NoRepeat(suspicious_sorted)
              /\ \A j, k \in 1..Len(suspicious_sorted) :
                    j < k =>
                       \/ data[suspicious_sorted[j]].duration_seconds
                             > data[suspicious_sorted[k]].duration_seconds
                       \/ /\ data[suspicious_sorted[j]].duration_seconds
                                = data[suspicious_sorted[k]].duration_seconds
                          /\ suspicious_sorted[j] < suspicious_sorted[k]
              /\ \A j \in 1..Len(ShownLines) :
                    /\ ShownLines[j].s = <<data[suspicious_sorted[j]].workflow_id,
                                           data[suspicious_sorted[j]].phase_name>>
                    /\ 60 * ShownLines[j].n[1] - 30
                          <= 10 * data[suspicious_sorted[j]].duration_seconds
                    /\ 10 * data[suspicious_sorted[j]].duration_seconds
                          <= 60 * ShownLines[j].n[1] + 30

(* twelve suspicious phases, ten shown, the last of the batch shown first *)
(* and a tied one cut off                                                   *)
C5_Witness ==
    /\ Finished
    /\ Cardinality(SuspiciousSet) = 12
    /\ Len(ShownLines) = 10
    /\ suspicious_sorted[1] = 13
    /\ data[suspicious_sorted[10]].duration_seconds
          = data[suspicious_sorted[11]].duration_seconds
    /\ \E i \in 1..N : i \notin SuspiciousSet

----------------------------------------------------------------------------
(* C7: each of the three recommendations is printed exactly when its own    *)
(* condition holds, whatever the other two: the systemic-bug warning when   *)
(* the suspicious phases (all of them, not the ten displayed) number more   *)
(* than 10, the mixed-workflow note when some workflow is mixed, the live   *)
(* warning when some live phase has zero tokens; those printed come in that *)
(* order, after the RECOMMENDATIONS banner.                                 *)
ManySuspiciousPhases == Cardinality(SuspiciousSet) > 10

SomeMixedWorkflow ==
    \E wid \in WorkflowIdsOf :
        /\ PhasesOf(wid) \cap ZeroSet # {}
        /\ PhasesOf(wid) \ ZeroSet # {}

SomeLiveZero == \E i \in ZeroSet : ~data[i].is_archived

RuleLines ==
    SelectSeq(out, LAMBDA l : l.kind \in {"recommendations", "rec_systemic",
                                          "rec_mixed", "rec_live"})

C7_RecommendationsIndependent ==
    Finished =>
        /\ Printed("rec_systemic") <=> ManySuspiciousPhases
        /\ Printed("rec_mixed") <=> SomeMixedWorkflow
        /\ Printed("rec_live") <=> SomeLiveZero
        /\ RuleLines = <<Text("recommendations")>>
              \o (IF ManySuspiciousPhases THEN <<Text("rec_systemic")>> ELSE <<>>)
              \o (IF SomeMixedWorkflow THEN <<Text("rec_mixed")>> ELSE <<>>)
              \o (IF SomeLiveZero THEN <<Text("rec_live")>> ELSE <<>>)

(* eleven suspicious phases, ten displayed: the first and the third rule    *)
(* fire without the second                                                  *)
C7_Witness ==
    /\ Finished
    /\ Cardinality(SuspiciousSet) = 11
    /\ Len(ShownLines) = 10
    /\ Printed("rec_systemic")
    /\ ~Printed("rec_mixed")
    /\ Printed("rec_live")

----------------------------------------------------------------------------
(* C10 as stated: the zero rate as a percentage with one decimal digit lies *)
(* in [0, 100], is 0 exactly when zero_count = 0 and 100 exactly when       *)
(* zero_count = total.  rate_shown is in tenths of a percent.               *)
C10_ShownRateExact ==
    rpc = "shown" =>
        /\ rate_shown \in 0..1000
        /\ rate_shown = 0 <=> rate_zero_count = 0
        /\ rate_shown = 1000 <=> rate_zero_count = rate_total

(* C10 amended: the zero rate as computed, zero_count / total * 100, lies   *)
(* in [0, 100], is 0 exactly when zero_count = 0 and 100 exactly when       *)
(* zero_count = total; shown with one decimal digit it lies in [0.0, 100.0] *)
(* and is 0.0 when zero_count = 0 and 100.0 when zero_count = total, but    *)
(* not only then.                                                           *)
C10_RateExactShownRounded ==
    /\ rpc \in {"rate", "shown"} =>
          /\ zero_rate[2] > 0
          /\ 0 <= zero_rate[1]
          /\ zero_rate[1] <= 100 * zero_rate[2]
          /\ zero_rate[1] * rate_total = 100 * rate_zero_count * zero_rate[2]
          /\ zero_rate[1] = 0 <=> rate_zero_count = 0
          /\ zero_rate[1] = 100 * zero_rate[2] <=> rate_zero_count = rate_total
    /\ rpc = "shown" =>
          /\ rate_shown \in 0..1000
          /\ rate_zero_count = 0 => rate_shown = 0
          /\ rate_zero_count = rate_total => rate_shown = 1000

(* 2000 of 2001 phases with zero tokens are shown as 100.0% *)
C10_Witness ==
    /\ rpc = "shown"
    /\ rate_total > 2000
    /\ rate_zero_count = rate_total - 1
    /\ rate_shown = 1000

====
